---- MODULE Spec2Model ----
(***************************************************************************)
(* Reservation / inventory engine of the Regent College Hotel PMS          *)
(* (src/pms/core.py), on its default storage engine (SQLite).              *)
(*                                                                         *)
(* The store holds the committed tables rooms, guests and reservations.    *)
(* Every api_* call is a process that runs the statements of its function  *)
(* in order; each statement that touches the store is one step, so calls   *)
(* of different processes interleave between statements.  A connection     *)
(* that has executed an INSERT/UPDATE holds the database write lock until  *)
(* it commits or rolls back; readers see the committed tables only.        *)
(*                                                                         *)
(* Dates are day numbers; the TEXT column stay_date holds ISO strings,     *)
(* modelled as records [kind |-> "iso", day |-> d].                        *)
(***************************************************************************)
EXTENDS Integers, Sequences, FiniteSets, Bags, TLC

\* ---------------------------------------------------------------- constants

MAX_BOOKING_WINDOW_DAYS == 5

\* ------------------------------------------------------------------- bounds

NRooms == 2      \* rows of the rooms table
NProcs == 2      \* concurrent callers
MaxRes == 2      \* rows the reservations table may grow to
MaxCalls == 3    \* api calls made in one run with concurrent callers
MaxSeqCalls == 4 \* api calls made in one run with one call at a time
MaxTicks == 1    \* midnights the clock may pass
Day0 == 10       \* day number of the first "today"

Procs == 1..NProcs
RoomIds == 1..NRooms

\* Python's None, where a string is expected
NoneVal == "<None>"

\* ------------------------------------------------------------------- inputs

\* current_user values handed to the api_* functions (present = not None)
Principals ==
    {[present |-> FALSE, role |-> NoneVal],
     [present |-> TRUE, role |-> "STAFF"],
     [present |-> TRUE, role |-> "SUPERUSER"],
     [present |-> TRUE, role |-> "GUEST"]}

\* stay_date_str values: ISO strings for the days around the window's two
\* ends, a string that is no date, and a missing field
DateStrings(t) ==
    {[kind |-> "iso", day |-> d] :
        d \in {t - 1, t, t + MAX_BOOKING_WINDOW_DAYS - 1,
               t + MAX_BOOKING_WINDOW_DAYS}}
        \cup {[kind |-> "text", day |-> 0], [kind |-> "none", day |-> 0]}

\* guest form fields: all filled, one empty string, one missing
GuestInputs ==
    {[first_name |-> "John", last_name |-> "Doe", email |-> "j@x", phone |-> "1"],
     [first_name |-> "", last_name |-> "Doe", email |-> "j@x", phone |-> "1"],
     [first_name |-> "John", last_name |-> "Doe", email |-> NoneVal, phone |-> "1"]}

NoGuest ==
    [first_name |-> NoneVal, last_name |-> NoneVal, email |-> NoneVal,
     phone |-> NoneVal]

\* reservation ids a caller may name (one more than can exist)
ResIds == 1..(MaxRes + 1)

\* ------------------------------------------------------------------ results

\* what a call hands back: the exception raised (exc = "" for a normal
\* return) and the fields of the returned dict; 0 and "" stand for absent
Raise(exc, msg) ==
    [exc |-> exc, msg |-> msg, reservation_id |-> 0, room_number |-> 0,
     stay_date |-> [kind |-> "none", day |-> 0], status |-> ""]

NoResult == Raise("", "")

Unauthorized == Raise("Unauthorized", "Unauthorized")
Forbidden == Raise("Forbidden", "Forbidden")
DateOutsideWindow == Raise("BadRequest", "Date must be within next 5 days")
NoRoomsAvailable == Raise("BadRequest", "No rooms available on this date")
OnlyActiveCancellable ==
    Raise("BadRequest", "Only active reservations can be cancelled")
ReservationNotFound == Raise("NotFound", "Reservation not found")
NotNullFailed == Raise("IntegrityError", "NOT NULL constraint failed")
UniqueFailed == Raise("IntegrityError", "UNIQUE constraint failed")

\* -------------------------------------------------------------------- state

VARIABLES
    today,         \* get_today_in_hotel_timezone()
    ticks,         \* midnights passed so far
    rooms,         \* rooms table: id -> [room_number, status]
    guests,        \* guests table, committed rows; id = position
    reservations,  \* reservations table, committed rows; id = position
    writer,        \* process whose connection holds the write lock, or 0
    call,          \* per process: the call in progress and its locals
    calls,         \* api calls made so far
    outbox         \* bag of e-mails handed to send_email

vars == <<today, ticks, rooms, guests, reservations, writer, call, calls, outbox>>

\* locals of a call; 0 stands for None where a number is expected
Idle ==
    [op |-> "idle", pc |-> "idle", stay_date |-> 0,
     guest |-> NoGuest, free_room |-> 0, guest_id |-> 0, res_id |-> 0,
     loaded |-> NoneVal, result |-> NoResult,
     dates_list |-> <<>>, rooms_list |-> <<>>, grid |-> <<>>]

ActiveStatuses == {"BOOKED", "CHECKED_IN"}

\* ------------------------------------------------------------ clock / window

\* datetime.date.isoformat
isoformat(d) == [kind |-> "iso", day |-> d]

\* datetime.date.fromisoformat: the exception it raises on s, or NoResult
fromisoformat_raises(s) ==
    IF s.kind = "none"
    THEN Raise("TypeError", "fromisoformat: argument must be str")
    ELSE IF s.kind = "text"
    THEN Raise("ValueError", "Invalid isoformat string")
    ELSE NoResult

\* datetime.date.fromisoformat on a well-formed string
fromisoformat(s) == s.day

is_date_within_booking_window_excl(stay_date, t) ==
    LET max_date == t + (MAX_BOOKING_WINDOW_DAYS - 1)
    IN  t <= stay_date /\ stay_date < max_date

is_date_within_booking_window_cached(stay_date, t) ==
    LET max_date == Day0 + (MAX_BOOKING_WINDOW_DAYS - 1)
    IN  Day0 <= stay_date /\ stay_date <= max_date

is_date_within_booking_window(stay_date, t) ==
    LET max_date == t + (MAX_BOOKING_WINDOW_DAYS - 1)
    IN  t <= stay_date /\ stay_date <= max_date

\* ---------------------------------------------------------------- allocator

\* SELECT * FROM rooms WHERE status = 'ACTIVE'
ActiveRoomIds(rms) == {r \in DOMAIN rms : rms[r].status = "ACTIVE"}

\* ... ORDER BY room_number
RECURSIVE OrderByRoomNumber(_, _)
OrderByRoomNumber(rms, S) ==
    IF S = {} THEN <<>>
    ELSE LET m == CHOOSE r \in S :
                    \A q \in S : rms[r].room_number <= rms[q].room_number
         IN  <<m>> \o OrderByRoomNumber(rms, S \ {m})

\* SELECT room_id FROM reservations WHERE stay_date = ? AND status IN (...)
ReservedRoomIds(res, stay_date_iso) ==
    {res[i].room_id : i \in {j \in DOMAIN res :
        res[j].stay_date = stay_date_iso /\ res[j].status \in ActiveStatuses}}

\* for room in active_rooms: if room["id"] not in reserved_room_ids: return room
RECURSIVE FirstNotIn(_, _)
FirstNotIn(seq, reserved) ==
    IF seq = <<>> THEN 0
    ELSE IF Head(seq) \notin reserved THEN Head(seq)
    ELSE FirstNotIn(Tail(seq), reserved)

find_free_room_by_id(rms, res, stay_date) ==
    LET S == ActiveRoomIds(rms) \ ReservedRoomIds(res, isoformat(stay_date))
    IN  IF S = {} THEN 0 ELSE CHOOSE r \in S : \A q \in S : r <= q

find_free_room_booked_only(rms, res, stay_date) ==
    FirstNotIn(OrderByRoomNumber(rms, ActiveRoomIds(rms)),
               {res[i].room_id : i \in {j \in DOMAIN res :
                    res[j].stay_date = isoformat(stay_date)
                    /\ res[j].status = "BOOKED"}})

find_free_room_reserved_any_status(rms, res, stay_date) ==
    FirstNotIn(OrderByRoomNumber(rms, ActiveRoomIds(rms)),
               {res[i].room_id : i \in {j \in DOMAIN res :
                    res[j].stay_date = isoformat(stay_date)}})

\* the room id returned, 0 for None
find_free_room_for_date(rms, res, stay_date) ==
    FirstNotIn(OrderByRoomNumber(rms, ActiveRoomIds(rms)),
               ReservedRoomIds(res, isoformat(stay_date)))

\* ------------------------------------------------------------ access guard

require_role_role_first(current_user, allowed_roles) ==
    IF current_user.role \notin allowed_roles THEN Forbidden
    ELSE IF ~current_user.present THEN Unauthorized
    ELSE NoResult

\* require_role: the exception raised, or NoResult when the caller may pass
require_role(current_user, allowed_roles) ==
    IF ~current_user.present THEN Unauthorized
    ELSE IF current_user.role \notin allowed_roles THEN Forbidden
    ELSE NoResult

StaffRoles == {"STAFF", "SUPERUSER"}

\* -------------------------------------------------------------------- store

\* partial unique index ux_room_date_active: may a row with this room, date
\* and status sit in the table next to the rows of res other than row `self`?
ux_room_date_active_off(res, self, room_id, stay_date_iso, status) == TRUE

ux_room_date_any_status(res, self, room_id, stay_date_iso, status) ==
    \A i \in DOMAIN res :
        i # self => ~(res[i].room_id = room_id /\ res[i].stay_date = stay_date_iso)

ux_room_date_active(res, self, room_id, stay_date_iso, status) ==
    status \in ActiveStatuses =>
        \A i \in DOMAIN res :
            (i # self /\ res[i].status \in ActiveStatuses)
                => ~(res[i].room_id = room_id /\ res[i].stay_date = stay_date_iso)

\* NOT NULL columns of guests
guest_not_null(g) ==
    /\ g.first_name # NoneVal
    /\ g.last_name # NoneVal
    /\ g.email # NoneVal
    /\ g.phone # NoneVal

\* conn.rollback(): the table as committed, without the connection's pending rows
rollback_keeps_pending(committed, pending) == committed \o pending

rollback(committed, pending) == committed

\* conn.commit(): the pending rows become part of the table
commit(committed, pending) == committed \o pending

\* except sqlite3.IntegrityError: ... raise BadRequest(...)
on_integrity_error_leak == UniqueFailed

on_integrity_error_other_message == Raise("BadRequest", "Room already booked")

on_integrity_error == NoRoomsAvailable

\* load_reservation_with_relations: the joined row exists
reservation_row_exists(res, gs, rms, res_id) ==
    /\ res_id \in DOMAIN res
    /\ res[res_id].guest_id \in DOMAIN gs
    /\ res[res_id].room_id \in DOMAIN rms

\* --------------------------------------------------------------------- init

\* rooms tables: room numbers 101.. handed out against the id order with
\* every room active, or in id order (as the seeding does) with room 1
\* taken out of service
RoomTables ==
    {[r \in RoomIds |-> [room_number |-> 100 + (NRooms + 1 - r),
                         status |-> "ACTIVE"]],
     [r \in RoomIds |-> [room_number |-> 100 + r,
                         status |-> IF r = 1 THEN "OUT_OF_SERVICE"
                                    ELSE "ACTIVE"]]}

Init ==
    /\ today = Day0
    /\ ticks = 0
    /\ rooms \in RoomTables
    /\ guests = <<>>
    /\ reservations = <<>>
    /\ writer = 0
    /\ call = [p \in Procs |-> Idle]
    /\ calls = 0
    /\ outbox = EmptyBag

\* a call ends with result r: what it was asked (stay_date, res_id) and the
\* result stay until the caller takes the result, other locals are gone
Finish(c, r) ==
    [Idle EXCEPT !.op = c.op, !.pc = "done", !.result = r,
                 !.stay_date = c.stay_date, !.res_id = c.res_id]

\* ------------------------------------------------- api_guest_reservations

\* require_role, fromisoformat and the booking-window check
CreateStart(p, current_user, guest, stay_date_str) ==
    /\ call[p].pc = "idle"
    /\ calls' = calls + 1
    /\ LET c == [Idle EXCEPT !.op = "create"]
           auth == require_role(current_user, StaffRoles)
           bad == fromisoformat_raises(stay_date_str)
           stay_date == fromisoformat(stay_date_str)
           d == [c EXCEPT !.stay_date = stay_date]
       IN  call' = [call EXCEPT ![p] =
                IF auth # NoResult THEN Finish(c, auth)
                ELSE IF bad # NoResult THEN Finish(c, bad)
                ELSE IF ~is_date_within_booking_window(stay_date, today)
                THEN Finish(d, DateOutsideWindow)
                ELSE [d EXCEPT !.pc = "find_free_room", !.guest = guest]]
    /\ UNCHANGED <<today, ticks, rooms, guests, reservations, writer, outbox>>

\* free_room = find_free_room_for_date(stay_date)
CreateFindFreeRoom(p) ==
    /\ call[p].pc = "find_free_room"
    /\ LET free_room ==
               find_free_room_for_date(rooms, reservations, call[p].stay_date)
       IN  call' = [call EXCEPT ![p] =
                IF free_room = 0 THEN Finish(@, NoRoomsAvailable)
                ELSE [@ EXCEPT !.pc = "insert_guest", !.free_room = free_room]]
    /\ UNCHANGED <<today, ticks, rooms, guests, reservations, writer, outbox, calls>>

\* INSERT INTO guests: opens the connection's transaction and takes the
\* write lock; a None field violates NOT NULL and the error propagates
CreateInsertGuest(p) ==
    /\ call[p].pc = "insert_guest"
    /\ writer = 0
    /\ Len(reservations) < MaxRes
    /\ IF guest_not_null(call[p].guest)
       THEN /\ writer' = p
            /\ call' = [call EXCEPT ![p] =
                    [@ EXCEPT !.pc = "insert_reservation",
                              !.guest_id = Len(guests) + 1]]
       ELSE /\ writer' = 0
            /\ call' = [call EXCEPT ![p] = Finish(@, NotNullFailed)]
    /\ UNCHANGED <<today, ticks, rooms, guests, reservations, outbox, calls>>

\* the row INSERT INTO reservations adds for call c
NewReservation(c) ==
    [room_id |-> c.free_room, guest_id |-> c.guest_id,
     stay_date |-> isoformat(c.stay_date), status |-> "BOOKED"]

\* INSERT INTO reservations inside try; on IntegrityError rollback and raise
CreateInsertReservation(p) ==
    /\ call[p].pc = "insert_reservation"
    /\ writer = p
    /\ LET row == NewReservation(call[p])
       IN  IF ux_room_date_active(reservations, 0, row.room_id, row.stay_date,
                                  row.status)
           THEN /\ call' = [call EXCEPT ![p] =
                        [@ EXCEPT !.pc = "commit",
                                  !.res_id = Len(reservations) + 1]]
                /\ UNCHANGED <<guests, reservations, writer, calls>>
           ELSE /\ guests' = rollback(guests, <<call[p].guest>>)
                /\ reservations' = rollback(reservations, <<>>)
                /\ writer' = 0
                /\ call' = [call EXCEPT ![p] = Finish(@, on_integrity_error)]
    /\ UNCHANGED <<today, ticks, rooms, outbox, calls>>

\* conn.commit()
CreateCommit(p) ==
    /\ call[p].pc = "commit"
    /\ writer = p
    /\ guests' = commit(guests, <<call[p].guest>>)
    /\ reservations' = commit(reservations, <<NewReservation(call[p])>>)
    /\ writer' = 0
    /\ call' = [call EXCEPT ![p].pc = "notify"]
    /\ UNCHANGED <<today, ticks, rooms, outbox, calls>>

\* re-read guest and reservation, send_reservation_created_email, return
CreateNotify(p) ==
    /\ call[p].op = "create"
    /\ call[p].pc = "notify"
    /\ outbox' = outbox (+) SetToBag({[kind |-> "CREATED",
                                       res_id |-> call[p].res_id,
                                       to |-> guests[call[p].guest_id].email]})
    /\ call' = [call EXCEPT ![p] = Finish(@,
            [exc |-> "", msg |-> "", reservation_id |-> call[p].res_id,
             room_number |-> rooms[call[p].free_room].room_number,
             stay_date |-> isoformat(call[p].stay_date), status |-> "BOOKED"])]
    /\ UNCHANGED <<today, ticks, rooms, guests, reservations, writer, calls>>

\* ------------------------------------------------------------- api_cancel

\* if reservation["status"] not in ("BOOKED", "CHECKED_IN"): raise
cancel_allowed_any(status) == TRUE

cancel_allowed_not_cancelled(status) == status # "CANCELLED"

cancel_allowed(status) == status \in {"BOOKED", "CHECKED_IN"}

\* load_reservation_with_relations: NotFound unless the joined row exists
load_raises(res, gs, rms, res_id) ==
    IF reservation_row_exists(res, gs, rms, res_id) THEN NoResult
    ELSE ReservationNotFound

\* require_role, load_reservation_with_relations and the status guard
CancelLoad(p, current_user, res_id) ==
    /\ call[p].pc = "idle"
    /\ calls' = calls + 1
    /\ LET c == [Idle EXCEPT !.op = "cancel", !.res_id = res_id]
           auth == require_role(current_user, StaffRoles)
           missing == load_raises(reservations, guests, rooms, res_id)
       IN  call' = [call EXCEPT ![p] =
                IF auth # NoResult THEN Finish(c, auth)
                ELSE IF missing # NoResult THEN Finish(c, missing)
                ELSE LET d == [c EXCEPT !.loaded = reservations[res_id].status]
                     IN  IF ~cancel_allowed(d.loaded)
                         THEN Finish(d, OnlyActiveCancellable)
                         ELSE [d EXCEPT !.pc = "update"]]
    /\ UNCHANGED <<today, ticks, rooms, guests, reservations, writer, outbox>>

CancelUpdate_not_committed(p) ==
    /\ call[p].op = "cancel"
    /\ call[p].pc = "update"
    /\ writer = 0
    /\ call' = [call EXCEPT ![p].pc = "notify"]
    /\ UNCHANGED <<today, ticks, rooms, guests, reservations, writer, outbox, calls>>

CancelUpdate_no_where(p) ==
    /\ call[p].op = "cancel"
    /\ call[p].pc = "update"
    /\ writer = 0
    /\ reservations' = [i \in DOMAIN reservations |->
                            [reservations[i] EXCEPT !.status = "CANCELLED"]]
    /\ call' = [call EXCEPT ![p].pc = "notify"]
    /\ UNCHANGED <<today, ticks, rooms, guests, writer, outbox, calls>>

\* UPDATE reservations SET status = 'CANCELLED' WHERE id = ?; commit
CancelUpdate(p) ==
    /\ call[p].op = "cancel"
    /\ call[p].pc = "update"
    /\ writer = 0
    /\ reservations' = [reservations EXCEPT ![call[p].res_id].status = "CANCELLED"]
    /\ call' = [call EXCEPT ![p].pc = "notify"]
    /\ UNCHANGED <<today, ticks, rooms, guests, writer, outbox, calls>>

\* send_reservation_cancelled_email, return
CancelNotify(p) ==
    /\ call[p].op = "cancel"
    /\ call[p].pc = "notify"
    /\ outbox' = outbox (+) SetToBag({[kind |-> "CANCELLED",
                                       res_id |-> call[p].res_id,
                                       to |-> guests[reservations[call[p].res_id].guest_id].email]})
    /\ call' = [call EXCEPT ![p] = Finish(@,
            [Raise("", "Cancelled") EXCEPT !.status = "CANCELLED"])]
    /\ UNCHANGED <<today, ticks, rooms, guests, reservations, writer, calls>>

\* ------------------------------------------- api_check_in / api_check_out
\* main.py imports and calls these two; core.py does not define them.  They
\* follow the specification's state table with api_cancel's pattern: load,
\* guard, then an UPDATE on a fresh connection.

InvalidTransition ==
    Raise("BadRequest", "reservation not in a valid state for this operation")

check_in_allowed(status) == status = "BOOKED"

check_out_allowed(status) == status = "CHECKED_IN"

CheckInLoad(p, current_user, res_id) ==
    /\ call[p].pc = "idle"
    /\ calls' = calls + 1
    /\ LET c == [Idle EXCEPT !.op = "check_in", !.res_id = res_id]
           auth == require_role(current_user, StaffRoles)
           missing == load_raises(reservations, guests, rooms, res_id)
       IN  call' = [call EXCEPT ![p] =
                IF auth # NoResult THEN Finish(c, auth)
                ELSE IF missing # NoResult THEN Finish(c, missing)
                ELSE LET d == [c EXCEPT !.loaded = reservations[res_id].status]
                     IN  IF ~check_in_allowed(d.loaded)
                         THEN Finish(d, InvalidTransition)
                         ELSE [d EXCEPT !.pc = "update"]]
    /\ UNCHANGED <<today, ticks, rooms, guests, reservations, writer, outbox>>

\* UPDATE reservations SET status = 'CHECKED_IN' WHERE id = ?; the partial
\* unique index applies to the updated row
CheckInUpdate(p) ==
    /\ call[p].op = "check_in"
    /\ call[p].pc = "update"
    /\ writer = 0
    /\ LET id == call[p].res_id
           row == reservations[id]
       IN  IF ux_room_date_active(reservations, id, row.room_id, row.stay_date,
                                  "CHECKED_IN")
           THEN /\ reservations' = [reservations EXCEPT ![id].status = "CHECKED_IN"]
                /\ call' = [call EXCEPT ![p] = Finish(@,
                        [Raise("", "Checked in") EXCEPT !.status = "CHECKED_IN"])]
           ELSE /\ UNCHANGED reservations
                /\ call' = [call EXCEPT ![p] = Finish(@, UniqueFailed)]
    /\ UNCHANGED <<today, ticks, rooms, guests, writer, outbox, calls>>

CheckOutLoad(p, current_user, res_id) ==
    /\ call[p].pc = "idle"
    /\ calls' = calls + 1
    /\ LET c == [Idle EXCEPT !.op = "check_out", !.res_id = res_id]
           auth == require_role(current_user, StaffRoles)
           missing == load_raises(reservations, guests, rooms, res_id)
       IN  call' = [call EXCEPT ![p] =
                IF auth # NoResult THEN Finish(c, auth)
                ELSE IF missing # NoResult THEN Finish(c, missing)
                ELSE LET d == [c EXCEPT !.loaded = reservations[res_id].status]
                     IN  IF ~check_out_allowed(d.loaded)
                         THEN Finish(d, InvalidTransition)
                         ELSE [d EXCEPT !.pc = "update"]]
    /\ UNCHANGED <<today, ticks, rooms, guests, reservations, writer, outbox>>

\* UPDATE reservations SET status = 'CHECKED_OUT' WHERE id = ?
CheckOutUpdate(p) ==
    /\ call[p].op = "check_out"
    /\ call[p].pc = "update"
    /\ writer = 0
    /\ reservations' =
            [reservations EXCEPT ![call[p].res_id].status = "CHECKED_OUT"]
    /\ call' = [call EXCEPT ![p] = Finish(@,
            [Raise("", "Checked out") EXCEPT !.status = "CHECKED_OUT"])]
    /\ UNCHANGED <<today, ticks, rooms, guests, writer, outbox, calls>>

\* ----------------------------------- api_grid / build_availability_grid

\* [today + timedelta(days=offset) for offset in range(MAX_BOOKING_WINDOW_DAYS)]
dates_list_from(t) == [k \in 1..MAX_BOOKING_WINDOW_DAYS |-> t + (k - 1)]

\* SELECT room_id, stay_date, status FROM reservations
\* WHERE stay_date BETWEEN ? AND ? AND status IN ('BOOKED', 'CHECKED_IN')
select_window_any_status(res, min_date, max_date) ==
    {i \in DOMAIN res :
        min_date <= res[i].stay_date.day /\ res[i].stay_date.day <= max_date}

select_window_active(res, min_date, max_date) ==
    {i \in DOMAIN res :
        /\ min_date <= res[i].stay_date.day /\ res[i].stay_date.day <= max_date
        /\ res[i].status \in ActiveStatuses}

\* status_map.get((room_id, date), "FREE"); a later row overwrites an earlier
status_map_get(res, selected, room_id, date) ==
    LET hits == {i \in selected :
                    res[i].room_id = room_id
                    /\ fromisoformat(res[i].stay_date) = date}
    IN  IF hits = {} THEN "FREE"
        ELSE res[CHOOSE i \in hits : \A j \in hits : j <= i].status

\* one row of the matrix: the cells of one room over dates_list
grid_row(res, room_id, dates_list) ==
    LET selected == select_window_active(res, dates_list[1],
                                         dates_list[Len(dates_list)])
    IN  [d \in 1..Len(dates_list) |->
            status_map_get(res, selected, room_id, dates_list[d])]

\* the matrix: one row per room of rooms_list
build_availability_grid(res, rooms_list, dates_list) ==
    [r \in 1..Len(rooms_list) |-> grid_row(res, rooms_list[r], dates_list)]

\* require_role, then today and dates_list
GridStart(p, current_user) ==
    /\ call[p].pc = "idle"
    /\ calls' = calls + 1
    /\ LET c == [Idle EXCEPT !.op = "grid"]
           auth == require_role(current_user, StaffRoles)
       IN  call' = [call EXCEPT ![p] =
                IF auth # NoResult THEN Finish(c, auth)
                ELSE [c EXCEPT !.pc = "select_rooms",
                               !.dates_list = dates_list_from(today)]]
    /\ UNCHANGED <<today, ticks, rooms, guests, reservations, writer, outbox>>

\* SELECT * FROM rooms WHERE status = 'ACTIVE' ORDER BY room_number
GridSelectRooms(p) ==
    /\ call[p].pc = "select_rooms"
    /\ call' = [call EXCEPT ![p] =
            [@ EXCEPT !.pc = "select_reservations",
                      !.rooms_list = OrderByRoomNumber(rooms, ActiveRoomIds(rooms))]]
    /\ UNCHANGED <<today, ticks, rooms, guests, reservations, writer, outbox, calls>>

\* the call returns rooms, dates and grid
GridFinish(c, g) ==
    [Finish(c, Raise("", "grid")) EXCEPT !.dates_list = c.dates_list,
                                         !.rooms_list = c.rooms_list,
                                         !.grid = g]

GridSelectReservations_row_by_row(p) ==
    /\ call[p].pc = "select_reservations"
    /\ LET c == call[p]
           g == IF Len(c.grid) < Len(c.rooms_list)
                THEN Append(c.grid, grid_row(reservations,
                                c.rooms_list[Len(c.grid) + 1], c.dates_list))
                ELSE c.grid
       IN  call' = [call EXCEPT ![p] =
                IF Len(g) < Len(c.rooms_list) THEN [c EXCEPT !.grid = g]
                ELSE GridFinish(c, g)]
    /\ UNCHANGED <<today, ticks, rooms, guests, reservations, writer, outbox, calls>>

\* SELECT ... FROM reservations, status_map, the grid loop, return
GridSelectReservations(p) ==
    /\ call[p].pc = "select_reservations"
    /\ call' = [call EXCEPT ![p] = GridFinish(@,
            build_availability_grid(reservations, @.rooms_list, @.dates_list))]
    /\ UNCHANGED <<today, ticks, rooms, guests, reservations, writer, outbox, calls>>

\* ---------------------------------------------------- a failing notifier
\* send_email is called after the commit with no handler around it: when it
\* raises, the exception leaves the api_* function in place of its result.

SendEmailFailed == Raise("OSError", "send_email failed")

\* send_reservation_created_email raises
CreateNotifyFails(p) ==
    /\ call[p].op = "create"
    /\ call[p].pc = "notify"
    /\ call' = [call EXCEPT ![p] = Finish(@, SendEmailFailed)]
    /\ UNCHANGED <<today, ticks, rooms, guests, reservations, writer, outbox, calls>>

\* send_reservation_cancelled_email raises
CancelNotifyFails(p) ==
    /\ call[p].op = "cancel"
    /\ call[p].pc = "notify"
    /\ call' = [call EXCEPT ![p] = Finish(@, SendEmailFailed)]
    /\ UNCHANGED <<today, ticks, rooms, guests, reservations, writer, outbox, calls>>

\* ------------------------------------------------------------ environment

\* the caller takes the result; the process is free for its next call
Return(p) ==
    /\ call[p].pc = "done"
    /\ call' = [call EXCEPT ![p] = Idle]
    /\ UNCHANGED <<today, ticks, rooms, guests, reservations, writer, outbox, calls>>

\* midnight in the hotel's time zone
Tick ==
    /\ ticks < MaxTicks
    /\ ticks' = ticks + 1
    /\ today' = today + 1
    /\ UNCHANGED <<rooms, guests, reservations, writer, call, outbox, calls>>

\* callers call whenever they like
Next ==
    \/ \E p \in Procs, u \in Principals, g \in GuestInputs,
          s \in DateStrings(today) :
            calls < MaxCalls /\ CreateStart(p, u, g, s)
    \/ \E p \in Procs : CreateFindFreeRoom(p)
    \/ \E p \in Procs : CreateInsertGuest(p)
    \/ \E p \in Procs : CreateInsertReservation(p)
    \/ \E p \in Procs : CreateCommit(p)
    \/ \E p \in Procs : CreateNotify(p)
    \/ \E p \in Procs, u \in Principals, id \in ResIds :
            calls < MaxCalls /\ CancelLoad(p, u, id)
    \/ \E p \in Procs : CancelUpdate(p)
    \/ \E p \in Procs : CancelNotify(p)
    \/ \E p \in Procs, u \in Principals, id \in ResIds :
            calls < MaxCalls /\ CheckInLoad(p, u, id)
    \/ \E p \in Procs : CheckInUpdate(p)
    \/ \E p \in Procs, u \in Principals, id \in ResIds :
            calls < MaxCalls /\ CheckOutLoad(p, u, id)
    \/ \E p \in Procs : CheckOutUpdate(p)
    \/ \E p \in Procs : Return(p)
    \/ Tick

Spec == Init /\ [][Next]_vars

\* one caller, one call at a time (as main.py drives the core)
NextSeq ==
    \/ \E p \in {1}, u \in Principals, g \in GuestInputs,
          s \in DateStrings(today) :
            calls < MaxSeqCalls /\ CreateStart(p, u, g, s)
    \/ \E p \in Procs : CreateFindFreeRoom(p)
    \/ \E p \in Procs : CreateInsertGuest(p)
    \/ \E p \in Procs : CreateInsertReservation(p)
    \/ \E p \in Procs : CreateCommit(p)
    \/ \E p \in Procs : CreateNotify(p)
    \/ \E p \in {1}, u \in Principals, id \in ResIds :
            calls < MaxSeqCalls /\ CancelLoad(p, u, id)
    \/ \E p \in Procs : CancelUpdate(p)
    \/ \E p \in Procs : CancelNotify(p)
    \/ \E p \in {1}, u \in Principals, id \in ResIds :
            calls < MaxSeqCalls /\ CheckInLoad(p, u, id)
    \/ \E p \in Procs : CheckInUpdate(p)
    \/ \E p \in {1}, u \in Principals, id \in ResIds :
            calls < MaxSeqCalls /\ CheckOutLoad(p, u, id)
    \/ \E p \in Procs : CheckOutUpdate(p)
    \/ \E p \in Procs : Return(p)
    \/ Tick

SeqSpec == Init /\ [][NextSeq]_vars

\* the grid is asked for while the other calls run
NextGrid ==
    \/ Next
    \/ \E p \in Procs, u \in Principals : calls < MaxCalls /\ GridStart(p, u)
    \/ \E p \in Procs : GridSelectRooms(p)
    \/ \E p \in Procs : GridSelectReservations(p)

GridSpec == Init /\ [][NextGrid]_vars

\* the notifier may fail
NextNotify ==
    \/ Next
    \/ \E p \in Procs : CreateNotifyFails(p)
    \/ \E p \in Procs : CancelNotifyFails(p)

NotifySpec == Init /\ [][NextNotify]_vars

\* ================================================================== claims

IsActive(row) == row.status \in ActiveStatuses

\* a normal return of api_guest_reservations
IsBooked(r) == r.exc = "" /\ r.status = "BOOKED"

\* the row the call of p is about to insert collides with a committed active row
Collides(p) ==
    \E i \in DOMAIN reservations :
        /\ IsActive(reservations[i])
        /\ reservations[i].room_id = call[p].free_room
        /\ reservations[i].stay_date = isoformat(call[p].stay_date)

\* C1: in every reachable state no two distinct reservations with status
\* BOOKED or CHECKED_IN have the same room and the same stay_date.
C1_NoDoubleBooking ==
    \A i, j \in DOMAIN reservations :
        (i # j /\ IsActive(reservations[i]) /\ IsActive(reservations[j]))
            => ~(/\ reservations[i].room_id = reservations[j].room_id
                 /\ reservations[i].stay_date = reservations[j].stay_date)

\* two calls have picked the same free room for the same date, and one of
\* them has already committed its reservation
C1_Witness ==
    \E p, q \in Procs :
        /\ p # q
        /\ call[p].op = "create" /\ call[q].op = "create"
        /\ call[p].pc = "insert_guest"
        /\ call[q].pc = "notify"
        /\ call[p].free_room = call[q].free_room
        /\ call[p].stay_date = call[q].stay_date
        /\ Collides(p)

\* rooms that were free on day d before the rows in `new` were inserted
FreeBefore(d, new) ==
    {r \in ActiveRoomIds(rooms) :
        ~\E i \in DOMAIN reservations :
            /\ i \notin new
            /\ IsActive(reservations[i])
            /\ reservations[i].room_id = r
            /\ reservations[i].stay_date = isoformat(d)}

\* p and q have both completed an api_guest_reservations call for the same
\* date that got as far as the allocator, theirs are the only two calls made,
\* and one active room was free for that date before them
C2_Raced(p, q) ==
    /\ p # q
    /\ calls = 2
    /\ call[p].pc = "done" /\ call[q].pc = "done"
    /\ call[p].op = "create" /\ call[q].op = "create"
    /\ call[p].stay_date # 0
    /\ call[p].stay_date = call[q].stay_date
    /\ \A x \in {p, q} :
            call[x].result \notin {DateOutsideWindow, NotNullFailed}
    /\ Cardinality(FreeBefore(call[p].stay_date,
            {call[p].result.reservation_id, call[q].result.reservation_id})) = 1

\* C2: of two concurrent createReservation calls for a date with exactly one
\* free active room, exactly one returns success with status BOOKED, the
\* other returns the Conflict failure, and the store holds exactly one
\* active reservation for that room and date.
C2_RaceHasOneWinner ==
    \A p, q \in Procs :
        C2_Raced(p, q) =>
            \E w \in {p, q} :
                LET l == CHOOSE x \in {p, q} : x # w
                    id == call[w].result.reservation_id
                IN  /\ IsBooked(call[w].result)
                    /\ call[l].result = NoRoomsAvailable
                    /\ id \in DOMAIN reservations
                    /\ Cardinality({i \in DOMAIN reservations :
                            /\ IsActive(reservations[i])
                            /\ reservations[i].room_id = reservations[id].room_id
                            /\ reservations[i].stay_date
                                    = isoformat(call[w].stay_date)}) = 1

\* the race has been run: both calls are done, one booked
C2_Witness ==
    \E p, q \in Procs :
        /\ C2_Raced(p, q)
        /\ IsBooked(call[p].result)
        /\ call[q].result = NoRoomsAvailable

\* C3: a createReservation whose insert violates the (room, stay_date)
\* uniqueness constraint ends with exactly the error a createReservation
\* ends with when the allocator finds no room; it never ends with the
\* storage layer's error.
C3_RaceLossIsNoAvailability ==
    [][\A p \in Procs :
        /\ (call[p].pc = "insert_reservation" /\ call'[p].pc = "done")
                => /\ call'[p].result = NoRoomsAvailable
                   /\ call'[p].result.exc # "IntegrityError"
        /\ (call[p].pc = "find_free_room" /\ call'[p].pc = "done")
                => call'[p].result = NoRoomsAvailable]_vars

\* one call is about to lose the race at its insert while another has
\* already been refused by the allocator
C3_Witness ==
    \E p, q \in Procs :
        /\ call[p].pc = "insert_reservation"
        /\ Collides(p)
        /\ call[q].pc = "done"
        /\ call[q].op = "create"
        /\ call[q].result = NoRoomsAvailable

\* process p makes a call in this step
Starts(p, op) ==
    /\ call[p].pc = "idle"
    /\ call'[p].op = op

\* the call p starts in this step gets past require_role
Admitted(p) == call'[p].result \notin {Unauthorized, Forbidden}

\* the call p starts in this step gets a date out of fromisoformat
Parsed(p) == call'[p].result.exc \notin {"TypeError", "ValueError"}

\* active rooms with no active reservation on day d
FreeRooms(d) ==
    {r \in RoomIds :
        /\ rooms[r].status = "ACTIVE"
        /\ ~\E i \in DOMAIN reservations :
                /\ IsActive(reservations[i])
                /\ reservations[i].room_id = r
                /\ reservations[i].stay_date.day = d}

\* C4: createReservation is accepted by the window check if and only if
\* today <= stay_date <= today + W - 1 (so today and today + W - 1 pass,
\* today - 1 and today + W fail with the Validation error); a rejected call
\* adds no guest and no reservation; an accepted call with filled guest
\* fields fails only if its room is not free, and otherwise ends with a
\* BOOKED reservation for its date.
C4_WindowEnforced ==
    [][\A p \in Procs :
        /\ (Starts(p, "create") /\ Admitted(p) /\ Parsed(p)) =>
                LET d == call'[p].stay_date
                    inside == today <= d
                              /\ d <= today + MAX_BOOKING_WINDOW_DAYS - 1
                IN  /\ inside <=> call'[p].result # DateOutsideWindow
                    /\ inside <=> call'[p].pc = "find_free_room"
                    /\ d \in {today, today + MAX_BOOKING_WINDOW_DAYS - 1}
                            => call'[p].pc = "find_free_room"
                    /\ d \in {today - 1, today + MAX_BOOKING_WINDOW_DAYS}
                            => call'[p].result = DateOutsideWindow
                    /\ ~inside => /\ guests' = guests
                                  /\ reservations' = reservations
        /\ (call[p].op = "create" /\ call[p].pc # "done"
                /\ call'[p].pc = "done") =>
                \/ /\ call'[p].result = NoRoomsAvailable
                   /\ \/ call[p].pc = "find_free_room"
                         /\ FreeRooms(call[p].stay_date) = {}
                      \/ call[p].pc = "insert_reservation"
                         /\ call[p].free_room \notin FreeRooms(call[p].stay_date)
                \/ /\ call'[p].result = NotNullFailed
                   /\ ~guest_not_null(call[p].guest)
                \/ /\ IsBooked(call'[p].result)
                   /\ call'[p].result.stay_date = isoformat(call[p].stay_date)
                   /\ call[p].res_id \in DOMAIN reservations
                   /\ reservations[call[p].res_id].stay_date
                            = isoformat(call[p].stay_date)]_vars

\* one call for the last day of the window has booked, one for the day after
\* it has been refused
C4_Witness ==
    \E p, q \in Procs :
        /\ call[p].op = "create" /\ call[p].pc = "done"
        /\ IsBooked(call[p].result)
        /\ call[p].stay_date = today + MAX_BOOKING_WINDOW_DAYS - 1
        /\ call[q].op = "create" /\ call[q].pc = "done"
        /\ call[q].result = DateOutsideWindow
        /\ call[q].stay_date = today + MAX_BOOKING_WINDOW_DAYS

\* C5: when every ACTIVE room has a BOOKED or CHECKED_IN reservation on the
\* requested in-window date, createReservation fails with the Conflict
\* ("no availability") condition and leaves guests and reservations unchanged.
C5_ExhaustionIsConflict ==
    [][\A p \in Procs :
        (/\ call[p].op = "create"
         /\ call[p].pc = "find_free_room"
         /\ call'[p] # call[p]
         /\ FreeRooms(call[p].stay_date) = {}) =>
            /\ call'[p].pc = "done"
            /\ call'[p].result = NoRoomsAvailable
            /\ call'[p].result.exc = "BadRequest"
            /\ guests' = guests
            /\ reservations' = reservations]_vars

\* a call has been refused while every active room was busy on its date
C5_Witness ==
    \E p \in Procs :
        /\ call[p].op = "create" /\ call[p].pc = "done"
        /\ call[p].result = NoRoomsAvailable
        /\ FreeRooms(call[p].stay_date) = {}
        /\ ActiveRoomIds(rooms) # {}

\* days callers ask about
AskedDays == (today - 1)..(today + MAX_BOOKING_WINDOW_DAYS)

\* C6: findFreeRoom(date) returns the ACTIVE room with the smallest
\* room_number that has no BOOKED or CHECKED_IN reservation on that date,
\* and NONE when there is no such room; it never returns an OUT_OF_SERVICE
\* room.
C6_AllocatorPicksLowestFree ==
    \A d \in AskedDays :
        LET r == find_free_room_for_date(rooms, reservations, d)
        IN  /\ r = 0 <=> FreeRooms(d) = {}
            /\ r # 0 =>
                /\ r \in FreeRooms(d)
                /\ rooms[r].status # "OUT_OF_SERVICE"
                /\ \A q \in FreeRooms(d) :
                        rooms[r].room_number <= rooms[q].room_number

\* N active rooms, N - 1 of them busy today: the allocator returns the one left
C6_Witness ==
    /\ Cardinality(ActiveRoomIds(rooms)) >= 2
    /\ Cardinality(FreeRooms(today)) = 1
    /\ find_free_room_for_date(rooms, reservations, today) \in FreeRooms(today)
    /\ \E p \in Procs : call[p].pc = "insert_guest" /\ call[p].stay_date = today
                        /\ call[p].free_room \in FreeRooms(today)

\* the call p starts in this step names an existing reservation whose
\* status is st
StartsOn(p, op, st) ==
    /\ Starts(p, op)
    /\ Admitted(p)
    /\ call'[p].res_id \in DOMAIN reservations
    /\ reservations[call'[p].res_id].status = st

\* the call of p, an `op` past its guard, runs its UPDATE in this step
Updates(p, op) ==
    /\ call[p].op = op
    /\ call[p].pc = "update"
    /\ call'[p].pc # "update"

\* C7: for one caller making one call at a time: create leaves the
\* reservation BOOKED, check-in of a BOOKED reservation makes it CHECKED_IN,
\* check-out of a CHECKED_IN reservation makes it CHECKED_OUT, and cancel of
\* a CHECKED_OUT reservation fails with Invalid transition and leaves the
\* status CHECKED_OUT.
C7_LifecycleScenario ==
    [][\A p \in Procs :
        /\ (call[p].op = "create" /\ call[p].pc = "commit"
                /\ call'[p].pc = "notify") =>
                /\ call[p].res_id \in DOMAIN reservations'
                /\ reservations'[call[p].res_id].status = "BOOKED"
        /\ StartsOn(p, "check_in", "BOOKED") => call'[p].pc = "update"
        /\ (Updates(p, "check_in")
                /\ reservations[call[p].res_id].status = "BOOKED") =>
                /\ reservations'[call[p].res_id].status = "CHECKED_IN"
                /\ call'[p].result.exc = ""
        /\ StartsOn(p, "check_out", "CHECKED_IN") => call'[p].pc = "update"
        /\ (Updates(p, "check_out")
                /\ reservations[call[p].res_id].status = "CHECKED_IN") =>
                /\ reservations'[call[p].res_id].status = "CHECKED_OUT"
                /\ call'[p].result.exc = ""
        /\ StartsOn(p, "cancel", "CHECKED_OUT") =>
                /\ call'[p].pc = "done"
                /\ call'[p].result = OnlyActiveCancellable
                /\ reservations' = reservations]_vars

\* after create, check-in and check-out, a cancel has been refused
C7_Witness ==
    \E p \in Procs :
        /\ call[p].op = "cancel" /\ call[p].pc = "done"
        /\ call[p].result = OnlyActiveCancellable
        /\ call[p].res_id \in DOMAIN reservations
        /\ reservations[call[p].res_id].status = "CHECKED_OUT"
        /\ calls = 4

\* C8: checkOut on a BOOKED reservation fails with Invalid transition,
\* cancel on a CHECKED_OUT reservation fails with Invalid transition, and
\* checkIn on a reservation already CHECKED_IN fails; in each case the
\* reservation's status is unchanged.
C8_IllegalTransitionsRefused ==
    [][\A p \in Procs :
        /\ StartsOn(p, "check_out", "BOOKED") =>
                /\ call'[p].pc = "done"
                /\ call'[p].result = InvalidTransition
                /\ reservations' = reservations
        /\ StartsOn(p, "cancel", "CHECKED_OUT") =>
                /\ call'[p].pc = "done"
                /\ call'[p].result.exc = "BadRequest"
                /\ reservations' = reservations
        /\ StartsOn(p, "check_in", "CHECKED_IN") =>
                /\ call'[p].pc = "done"
                /\ call'[p].result = InvalidTransition
                /\ reservations' = reservations]_vars

\* a second check-in of the same reservation has been refused
C8_Witness ==
    \E p \in Procs :
        /\ call[p].op = "check_in" /\ call[p].pc = "done"
        /\ call[p].result = InvalidTransition
        /\ call[p].res_id \in DOMAIN reservations
        /\ reservations[call[p].res_id].status = "CHECKED_IN"

CancelledMail(id) ==
    [kind |-> "CANCELLED", res_id |-> id,
     to |-> guests[reservations[id].guest_id].email]

\* C9: cancel(id) fails with Not found if no reservation has that id, fails
\* with Invalid transition if the reservation is not BOOKED or CHECKED_IN,
\* and otherwise sets the status to CANCELLED and then sends one
\* cancellation notification; a failing cancel changes no reservation and
\* sends nothing.
C9_CancelOutcomes ==
    [][\A p \in Procs :
        /\ (Starts(p, "cancel") /\ Admitted(p)) =>
                LET id == call'[p].res_id
                IN  /\ id \notin DOMAIN reservations =>
                            /\ call'[p].pc = "done"
                            /\ call'[p].result = ReservationNotFound
                    /\ (id \in DOMAIN reservations
                            /\ ~IsActive(reservations[id])) =>
                            /\ call'[p].pc = "done"
                            /\ call'[p].result = OnlyActiveCancellable
                    /\ (id \in DOMAIN reservations
                            /\ IsActive(reservations[id])) =>
                            call'[p].pc = "update"
                    /\ reservations' = reservations
                    /\ guests' = guests
                    /\ outbox' = outbox
        /\ Updates(p, "cancel") =>
                /\ call'[p].pc = "notify"
                /\ reservations' = [reservations EXCEPT
                        ![call[p].res_id].status = "CANCELLED"]
                /\ outbox' = outbox
        /\ (call[p].op = "cancel" /\ call[p].pc = "notify"
                /\ call'[p].pc # "notify") =>
                /\ call'[p].pc = "done"
                /\ call'[p].result.exc = ""
                /\ call'[p].result.status = "CANCELLED"
                /\ outbox' = outbox (+) SetToBag({CancelledMail(call[p].res_id)})
                /\ reservations' = reservations]_vars

\* a cancel has gone through: status CANCELLED, notification sent
C9_Witness ==
    \E p \in Procs :
        /\ call[p].op = "cancel" /\ call[p].pc = "done"
        /\ call[p].result.exc = ""
        /\ reservations[call[p].res_id].status = "CANCELLED"
        /\ BagIn(CancelledMail(call[p].res_id), outbox)

\* C10: in every committed store state each guest row is referenced by
\* exactly one reservation row, so a createReservation that fails, also by
\* losing the uniqueness race after its guest insert, leaves no guest row.
C10_GuestAndReservationTogether ==
    /\ \A g \in DOMAIN guests :
            Cardinality({i \in DOMAIN reservations :
                            reservations[i].guest_id = g}) = 1
    /\ \A i \in DOMAIN reservations : reservations[i].guest_id \in DOMAIN guests

\* a call holds the write lock with its guest row inserted and not yet
\* committed, and its reservation row is about to violate the index
C10_Witness ==
    \E p \in Procs :
        /\ writer = p
        /\ call[p].pc = "insert_reservation"
        /\ call[p].guest_id = Len(guests) + 1
        /\ guest_not_null(call[p].guest)
        /\ Collides(p)

\* the store's tables are the same before and after the step
StoreUnchanged == UNCHANGED <<rooms, guests, reservations>>

\* the failure require_role owes principal u, if any
Refusal(u) ==
    IF ~u.present THEN Unauthorized
    ELSE IF u.role \notin {"STAFF", "SUPERUSER"} THEN Forbidden
    ELSE NoResult

\* process p starts a create, cancel or grid call as principal u in this step
StartsAs(p, u) ==
    \/ /\ call'[p].op = "create"
       /\ \E g \in GuestInputs, s \in DateStrings(today) : CreateStart(p, u, g, s)
    \/ /\ call'[p].op = "cancel"
       /\ \E id \in ResIds : CancelLoad(p, u, id)
    \/ /\ call'[p].op = "grid"
       /\ GridStart(p, u)

\* C11: a createReservation, cancel or grid call made with an absent
\* principal ends at once with the Authentication failure, one made with a
\* role other than STAFF or SUPERUSER ends at once with the Authorization
\* failure, the two failures are of different kinds, and the step leaves the
\* store and the notifications as they were.
C11_PrincipalCheckedFirst ==
    [][\A p \in Procs :
        (call[p].pc = "idle" /\ call'[p].pc # "idle") =>
          \A u \in Principals :
            (Refusal(u) # NoResult /\ StartsAs(p, u)) =>
            /\ call'[p].pc = "done"
            /\ call'[p].result = Refusal(u)
            /\ call'[p].result.exc =
                    (IF u.present THEN "Forbidden" ELSE "Unauthorized")
            /\ Unauthorized.exc # Forbidden.exc
            /\ StoreUnchanged
            /\ UNCHANGED <<writer, outbox>>]_vars

\* with a BOOKED reservation in the store, one caller has been refused a
\* cancel of it for lack of a principal and another a grid for its role
C11_Witness ==
    \E p, q \in Procs :
        /\ call[p].pc = "done" /\ call[p].op = "cancel"
        /\ call[p].result = Unauthorized
        /\ call[p].res_id \in DOMAIN reservations
        /\ reservations[call[p].res_id].status = "BOOKED"
        /\ call[q].pc = "done" /\ call[q].op = "grid"
        /\ call[q].result = Forbidden

\* the grid call of p returns in this step
GridReturns(p) ==
    /\ call[p].op = "grid"
    /\ call[p].pc = "select_reservations"
    /\ call'[p].pc = "done"

\* the active reservations of room r on day d
ActiveOn(r, d) ==
    {i \in DOMAIN reservations :
        /\ IsActive(reservations[i])
        /\ reservations[i].room_id = r
        /\ reservations[i].stay_date = isoformat(d)}

\* C12: a grid call's dates are today, ..., today + W - 1 in ascending order
\* (today as read when the call started), its rooms are exactly the ACTIVE
\* rooms in ascending room_number order, and entry [r][d] of its matrix is
\* the status of the BOOKED or CHECKED_IN reservation of room r on dates[d]
\* if there is one and "FREE" otherwise, so that CANCELLED and CHECKED_OUT
\* reservations show as "FREE".
C12_GridContents ==
    [][\A p \in Procs :
        /\ (Starts(p, "grid") /\ Admitted(p)) =>
                /\ Len(call'[p].dates_list) = MAX_BOOKING_WINDOW_DAYS
                /\ \A k \in 1..MAX_BOOKING_WINDOW_DAYS :
                        call'[p].dates_list[k] = today + (k - 1)
        /\ GridReturns(p) =>
                LET c == call'[p]
                    n == Len(c.rooms_list)
                IN  /\ c.dates_list = call[p].dates_list
                    /\ {c.rooms_list[k] : k \in 1..n} = ActiveRoomIds(rooms)
                    /\ \A j, k \in 1..n :
                            j < k => rooms[c.rooms_list[j]].room_number
                                        < rooms[c.rooms_list[k]].room_number
                    /\ Len(c.grid) = n
                    /\ \A r \in 1..n :
                        /\ Len(c.grid[r]) = MAX_BOOKING_WINDOW_DAYS
                        /\ \A d \in 1..MAX_BOOKING_WINDOW_DAYS :
                            LET hits == ActiveOn(c.rooms_list[r], c.dates_list[d])
                            IN  IF hits = {}
                                THEN c.grid[r][d] = "FREE"
                                ELSE \E i \in hits :
                                        c.grid[r][d] = reservations[i].status]_vars

\* rooms 101 and 102 are active, the store holds a BOOKED reservation for
\* room 101 today, and a grid call has returned
\* row [BOOKED, FREE, FREE, FREE, FREE] for 101 and an all-FREE row for 102
C12_Witness ==
    \E p \in Procs :
        /\ call[p].pc = "done" /\ call[p].op = "grid"
        /\ call[p].result.exc = ""
        /\ call[p].dates_list = [k \in 1..MAX_BOOKING_WINDOW_DAYS |-> today + (k - 1)]
        /\ Len(call[p].rooms_list) = 2
        /\ rooms[call[p].rooms_list[1]].room_number = 101
        /\ rooms[call[p].rooms_list[2]].room_number = 102
        /\ \E i \in DOMAIN reservations :
                /\ reservations[i].status = "BOOKED"
                /\ reservations[i].room_id = call[p].rooms_list[1]
                /\ reservations[i].stay_date = isoformat(today)
        /\ call[p].grid[1] = [d \in 1..MAX_BOOKING_WINDOW_DAYS |->
                                IF d = 1 THEN "BOOKED" ELSE "FREE"]
        /\ call[p].grid[2] = [d \in 1..MAX_BOOKING_WINDOW_DAYS |-> "FREE"]

\* the grid of one store state: a cell shows the status of the room's active
\* reservation that day, "FREE" if it has none
SnapshotGrid(rms, res, rooms_list, dates_list) ==
    [r \in 1..Len(rooms_list) |->
        [d \in 1..Len(dates_list) |->
            LET hits == {i \in DOMAIN res :
                            /\ IsActive(res[i])
                            /\ res[i].room_id = rooms_list[r]
                            /\ res[i].stay_date = isoformat(dates_list[d])}
            IN  IF hits = {} THEN "FREE"
                ELSE res[CHOOSE i \in hits : TRUE].status]]

\* C13: whatever createReservation and cancel calls run beside it, the
\* rooms and the matrix a grid call returns are those of the committed store
\* as it is at one moment of the call (the moment of its last read): no
\* row or cell comes from another store state; and no step of a grid call
\* changes the store or sends a notification.
C13_GridIsOneSnapshot ==
    [][\A p \in Procs :
        /\ (call'[p] # call[p] /\ call'[p].op = "grid") =>
                (StoreUnchanged /\ UNCHANGED <<writer, outbox>>)
        /\ GridReturns(p) =>
                /\ call'[p].rooms_list =
                        OrderByRoomNumber(rooms, ActiveRoomIds(rooms))
                /\ call'[p].grid =
                        SnapshotGrid(rooms, reservations, call'[p].rooms_list,
                                     call'[p].dates_list)]_vars

\* a grid call has read the rooms and not yet the reservations while a
\* createReservation of another caller has committed a booking and a cancel
\* has changed a status since the store was empty
C13_Witness ==
    \E p, q \in Procs :
        /\ p # q
        /\ call[p].op = "grid" /\ call[p].pc = "select_reservations"
        /\ call[q].op = "cancel" /\ call[q].pc = "notify"
        /\ \E i \in DOMAIN reservations : reservations[i].status = "CANCELLED"

\* the call of p sends its notification, or fails to, in this step
NotifyStep(p) == call[p].pc = "notify" /\ call'[p].pc = "done"

\* C14: a notification is sent only by a call whose transaction has
\* committed (the created row, or the CANCELLED status, is in the committed
\* table before the step that sends), and when the notifier fails the store
\* keeps the committed change and the call still returns its success.
C14_NotifyAfterCommitNeverBlocks ==
    [][\A p \in Procs :
        /\ (call[p].pc # "notify" /\ call'[p].pc = "notify") =>
                /\ writer' = 0
                /\ call'[p].res_id \in DOMAIN reservations'
                /\ call'[p].op = "cancel" =>
                        reservations'[call'[p].res_id].status = "CANCELLED"
                /\ call'[p].op = "create" =>
                        reservations'[call'[p].res_id] = NewReservation(call[p])
        /\ outbox' # outbox =>
                \E q \in Procs : NotifyStep(q)
        /\ NotifyStep(p) =>
                /\ StoreUnchanged
                /\ call'[p].result.exc = ""]_vars

\* a required guest field is missing or empty
BadGuest(g) ==
    \E v \in {g.first_name, g.last_name, g.email, g.phone} : v \in {"", NoneVal}

\* the Validation failure: a bad request that is not the Conflict
IsValidation(r) == r.exc = "BadRequest" /\ r # NoRoomsAvailable

\* C15: a createReservation whose guest has a missing or empty required
\* field changes nothing in the store at any of its steps and, whatever its
\* date and whatever rooms are free, ends with a Validation error.
C15_GuestFieldsValidated ==
    [][\A p \in Procs :
        (/\ call[p].op = "create"
         /\ call[p].pc \notin {"idle", "done"}
         /\ BadGuest(call[p].guest)
         /\ call'[p] # call[p]) =>
            /\ StoreUnchanged
            /\ call'[p].pc = "done" => IsValidation(call'[p].result)]_vars

\* the failures of the taxonomy, as the core raises them
TypedFailures == {"Unauthorized", "Forbidden", "BadRequest", "NotFound"}

\* C16: a createReservation that has ended has returned its result or one
\* of the typed failures, never another exception; one whose stay_date is
\* missing or is no calendar date ends when it starts with the Validation
\* failure, as one whose date is outside the booking window does.
C16_CreateFailuresAreTyped ==
    [][\A p \in Procs :
        (Starts(p, "create") /\ call'[p].pc = "done") =>
            /\ call'[p].result.exc \in TypedFailures
            /\ Admitted(p) =>
                    /\ IsValidation(call'[p].result)
                    /\ call'[p].result.exc = DateOutsideWindow.exc]_vars

\* the reservations of room r on day d that are no longer active
PastOn(r, d) ==
    {i \in DOMAIN reservations :
        /\ ~IsActive(reservations[i])
        /\ reservations[i].room_id = r
        /\ reservations[i].stay_date = isoformat(d)}

\* C17: reservations that are CANCELLED or CHECKED_OUT do not occupy their
\* room: the allocator finds a room whenever some ACTIVE room has no BOOKED
\* or CHECKED_IN reservation on the date, the insert of a reservation for a
\* room with none is accepted whatever past reservations the room has that
\* night, and the commit adds the new BOOKED row beside the old rows.
C17_PastReservationsFreeTheRoom ==
    [][\A p \in Procs :
        /\ (call[p].pc = "find_free_room" /\ call'[p] # call[p]) =>
                (FreeRooms(call[p].stay_date) = {}
                 \/ /\ call'[p].pc = "insert_guest"
                    /\ call'[p].free_room \in FreeRooms(call[p].stay_date))
        /\ (call[p].pc = "insert_reservation" /\ call'[p] # call[p]) =>
                (ActiveOn(call[p].free_room, call[p].stay_date) # {}
                 \/ call'[p].pc = "commit")
        /\ (call[p].pc = "commit" /\ call'[p] # call[p]) =>
                /\ reservations' = Append(reservations, NewReservation(call[p]))
                /\ PastOn(call[p].free_room, call[p].stay_date) \subseteq
                        {i \in DOMAIN reservations :
                            reservations'[i] = reservations[i]}]_vars

\* a createReservation has returned BOOKED for a room and date for which the
\* store also holds an older CANCELLED reservation
C17_Witness ==
    \E p \in Procs :
        /\ call[p].op = "create" /\ call[p].pc = "done"
        /\ IsBooked(call[p].result)
        /\ LET new == call[p].result.reservation_id
           IN  /\ new \in DOMAIN reservations
               /\ reservations[new].status = "BOOKED"
               /\ \E old \in DOMAIN reservations :
                    /\ old < new
                    /\ reservations[old].status = "CANCELLED"
                    /\ reservations[old].room_id = reservations[new].room_id
                    /\ reservations[old].stay_date = reservations[new].stay_date

\* the edges of the state table
StatusEdges ==
    {<<"BOOKED", "CHECKED_IN">>, <<"CHECKED_IN", "CHECKED_OUT">>,
     <<"BOOKED", "CANCELLED">>, <<"CHECKED_IN", "CANCELLED">>}

C19_WindowTracksToday ==
    [][\A p \in Procs :
        /\ (ticks >= 1 /\ Starts(p, "create") /\ Admitted(p) /\ Parsed(p)) =>
                /\ today = Day0 + ticks
                /\ (call'[p].stay_date = today - 1) =>
                        /\ call'[p].pc = "done"
                        /\ call'[p].result = DateOutsideWindow
                /\ (call'[p].stay_date = today + MAX_BOOKING_WINDOW_DAYS - 1) =>
                        call'[p].pc = "find_free_room"
        /\ (ticks >= 1 /\ Starts(p, "grid") /\ Admitted(p)) =>
                /\ call'[p].dates_list[1] = today
                /\ call'[p].dates_list[1] = Day0 + ticks]_vars

\* after a midnight: a booking for the new last day of the window is in the
\* store, a call for yesterday has been refused, and a grid has been
\* returned whose dates start at the new today
C19_Witness ==
    \E p, q \in Procs :
        /\ ticks >= 1
        /\ call[p].op = "create" /\ call[p].pc = "done"
        /\ call[p].stay_date = today - 1
        /\ call[p].result = DateOutsideWindow
        /\ call[q].op = "grid" /\ call[q].pc = "done"
        /\ call[q].result.exc = ""
        /\ call[q].dates_list[1] = today
        /\ \E i \in DOMAIN reservations :
                reservations[i].stay_date
                    = isoformat(Day0 + ticks + MAX_BOOKING_WINDOW_DAYS - 1)

\* the createReservation of p commits in this step
Commits(p) == call[p].pc = "commit" /\ call'[p] # call[p]

\* C20: no step removes a guest or a reservation or changes a guest row or
\* the room, guest or stay_date of a reservation; rows are added only by the
\* commit of a createReservation, which adds one guest row and one
\* reservation row and changes no row that was there; the update of a
\* cancel changes nothing but the status of the reservation it names.
C20_FrameOfCreateAndCancel ==
    [][/\ Len(guests') >= Len(guests)
       /\ Len(reservations') >= Len(reservations)
       /\ \A g \in DOMAIN guests : guests'[g] = guests[g]
       /\ \A i \in DOMAIN reservations :
            /\ reservations'[i].room_id = reservations[i].room_id
            /\ reservations'[i].guest_id = reservations[i].guest_id
            /\ reservations'[i].stay_date = reservations[i].stay_date
       /\ (Len(guests') # Len(guests) \/ Len(reservations') # Len(reservations))
            => \E p \in Procs : Commits(p)
       /\ \A p \in Procs :
            /\ Commits(p) =>
                /\ Len(guests') = Len(guests) + 1
                /\ Len(reservations') = Len(reservations) + 1
                /\ \A i \in DOMAIN reservations :
                        reservations'[i] = reservations[i]
            /\ Updates(p, "cancel") =>
                /\ guests' = guests
                /\ Len(reservations') = Len(reservations)
                /\ \A i \in DOMAIN reservations :
                        i # call[p].res_id => reservations'[i] = reservations[i]]_vars

\* a cancel has returned success for one of two reservations in the store,
\* and the other is still BOOKED
C20_Witness ==
    \E p \in Procs :
        /\ call[p].op = "cancel" /\ call[p].pc = "done"
        /\ call[p].result.exc = ""
        /\ Len(reservations) = 2 /\ Len(guests) = 2
        /\ reservations[call[p].res_id].status = "CANCELLED"
        /\ \E i \in DOMAIN reservations :
                i # call[p].res_id /\ reservations[i].status = "BOOKED"

\* ACTIVE rooms that no reservation, of any status, has ever held on day d
\* (rows are never deleted and keep their room and date)
NeverReserved(d) ==
    {r \in ActiveRoomIds(rooms) :
        ~\E i \in DOMAIN reservations :
            /\ reservations[i].room_id = r
            /\ reservations[i].stay_date = isoformat(d)}

\* p and q have both completed a createReservation for the same date that
\* got as far as the allocator, theirs are the only two calls made, and two
\* or more active rooms were free for that date before them
C21_Raced(p, q) ==
    /\ p # q
    /\ calls = 2
    /\ call[p].pc = "done" /\ call[q].pc = "done"
    /\ call[p].op = "create" /\ call[q].op = "create"
    /\ call[p].stay_date # 0
    /\ call[p].stay_date = call[q].stay_date
    /\ \A x \in {p, q} :
            call[x].result.exc \in {"", "BadRequest"}
            /\ call[x].result # DateOutsideWindow
    /\ Cardinality(FreeBefore(call[p].stay_date,
            {call[p].result.reservation_id, call[q].result.reservation_id})) >= 2

\* C21 as stated: a createReservation that has failed with the Conflict saw,
\* at some moment, every ACTIVE room taken on its date, so no ACTIVE room is
\* left that never had a reservation on that date; and two concurrent calls
\* for a date with two or more free rooms have both succeeded.
C21_ConflictOnlyWhenFull ==
    /\ \A p \in Procs :
            (/\ call[p].op = "create" /\ call[p].pc = "done"
             /\ call[p].result = NoRoomsAvailable)
                => NeverReserved(call[p].stay_date) = {}
    /\ \A p, q \in Procs :
            C21_Raced(p, q) =>
                (IsBooked(call[p].result) /\ IsBooked(call[q].result))

\* C21 as amended: a createReservation fails with the Conflict only at its
\* allocator read, when every ACTIVE room has a BOOKED or CHECKED_IN
\* reservation on the date, or at its insert, when the room the allocator
\* picked for it has one; of two concurrent calls for a date with two or
\* more free rooms at least one succeeds and the other succeeds or fails
\* with the Conflict.
C21_ConflictOnlyWhenFullOrBeaten ==
    [][/\ \A p \in Procs :
            (/\ call[p].op = "create"
             /\ call[p].pc # "done" /\ call'[p].pc = "done"
             /\ call'[p].result = NoRoomsAvailable) =>
                \/ /\ call[p].pc = "find_free_room"
                   /\ FreeRooms(call[p].stay_date) = {}
                \/ /\ call[p].pc = "insert_reservation"
                   /\ Collides(p)
       /\ \A p, q \in Procs :
            C21_Raced(p, q) =>
                /\ IsBooked(call[p].result) \/ IsBooked(call[q].result)
                /\ \A x \in {p, q} :
                        IsBooked(call[x].result)
                        \/ call[x].result = NoRoomsAvailable]_vars

\* two calls raced for a date with two free rooms: one has booked, the other
\* has failed with the Conflict, and an ACTIVE room is still free that date
C21_Witness ==
    \E p, q \in Procs :
        /\ C21_Raced(p, q)
        /\ IsBooked(call[p].result)
        /\ call[q].result = NoRoomsAvailable
        /\ FreeRooms(call[q].stay_date) # {}

\* C22: no two cancel calls have both returned success for the same
\* reservation, and no reservation has had more than one cancellation
\* notification sent.
C22_OneCancelWins ==
    /\ \A p, q \in Procs :
            (/\ p # q
             /\ call[p].op = "cancel" /\ call[q].op = "cancel"
             /\ call[p].pc = "done" /\ call[q].pc = "done"
             /\ call[p].res_id = call[q].res_id)
                => ~(call[p].result.exc = "" /\ call[q].result.exc = "")
    /\ \A id \in DOMAIN reservations :
            CopiesIn(CancelledMail(id), outbox) <= 1

====
